---- MODULE Spec2Model ----
(***************************************************************************)
(* A model of the QUIC multiplexing simulation: the packet codec           *)
(* (QUIC_API.py), the per-channel sender and receiver (StreamOut.py,       *)
(* StreamIn.py) and the two coordinators (QuicServer.py, QuicClient.py).   *)
(*                                                                         *)
(* Datagrams are byte sequences (sequences of one-character strings), so   *)
(* create_packet and parse_packet are computed as the code computes them.  *)
(* Every thread takes one step per blocking recvfrom: an action is the     *)
(* code that runs from the return of one recvfrom (with a datagram or with *)
(* socket.timeout) up to the next recvfrom or to the end of the thread.    *)
(***************************************************************************)
EXTENDS Integers, Sequences, FiniteSets, TLC

(***************************************************************************)
(* Bounds of the model.                                                    *)
(***************************************************************************)
\* the responder is configured with streams in 1..MaxStreams
MaxStreams == 2
\* the payload file of a channel holds 0..MaxFileLen characters
MaxFileLen == 4
\* a channel's packet size is one of the MaxChunkLen smallest sizes that hold
\* the header and "EOF"
MaxChunkLen == 2
\* at most MaxDup deliveries leave the datagram in flight (duplication)
MaxDup == 1
\* at most MaxTimeouts receive timeouts fire in one run
MaxTimeouts == 2
\* elapsed time is read as a tick in 0..MaxTime
MaxTime == 1

(***************************************************************************)
(* Program constants.                                                      *)
(***************************************************************************)
header_size == 8
StreamOutHeader == 8
StreamInHeader == 8
AckBufSize == 8
SynBufSize == 1000
CoordBufSize == 1024
ServerPort == 8000

(***************************************************************************)
(* Python values: a payload handed to create_packet or returned by         *)
(* parse_packet is a str, an int or a bytes object.                        *)
(***************************************************************************)
PyStr(s) == [t |-> "str", v |-> s]
PyInt(n) == [t |-> "int", v |-> n]
PyBytes(b) == [t |-> "bytes", v |-> b]

Syn == PyStr(<<"S", "y", "n">>)
EOF == PyStr(<<"E", "O", "F">>)
Empty == PyStr(<<>>)

\* a byte that is not valid UTF-8
BadByte == "xFF"

Digits == <<"0", "1", "2", "3", "4", "5", "6", "7", "8", "9">>
IsDigit(c) == \E n \in 1..10 : Digits[n] = c
DigitVal(c) == (CHOOSE n \in 1..10 : Digits[n] = c) - 1

Min(a, b) == IF a < b THEN a ELSE b
Max(a, b) == IF a < b THEN b ELSE a
Take(s, n) == SubSeq(s, 1, Min(Len(s), Max(n, 0)))
Drop(s, n) == SubSeq(s, Min(Len(s), Max(n, 0)) + 1, Len(s))

\* str(n) of an int
RECURSIVE Str(_)
Str(n) ==
  IF n < 0 THEN <<"-">> \o Str(0 - n)
  ELSE IF n < 10 THEN <<Digits[n + 1]>>
  ELSE Str(n \div 10) \o <<Digits[(n % 10) + 1]>>

\* s.zfill(w): zeros go after a leading sign
ZFill(s, w) ==
  IF Len(s) >= w THEN s
  ELSE IF Len(s) > 0 /\ s[1] \in {"+", "-"}
       THEN <<s[1]>> \o [j \in 1..(w - Len(s)) |-> "0"] \o Drop(s, 1)
       ELSE [j \in 1..(w - Len(s)) |-> "0"] \o s

\* repr of the bytes b: a byte that is not printable ASCII is written \xff
RECURSIVE Escaped(_)
Escaped(b) ==
  IF b = <<>> THEN <<>>
  ELSE (IF b[1] = BadByte THEN <<"\\", "x", "f", "f">> ELSE <<b[1]>>)
         \o Escaped(SubSeq(b, 2, Len(b)))

\* str(x) of a payload; the str of a bytes object is its repr, b'...'
ToStr(x) ==
  IF x.t = "int" THEN Str(x.v)
  ELSE IF x.t = "str" THEN x.v
  ELSE <<"b", "'">> \o Escaped(x.v) \o <<"'">>

\* s.strip()
RECURSIVE LStrip(_)
LStrip(s) == IF Len(s) > 0 /\ s[1] = " " THEN LStrip(Drop(s, 1)) ELSE s
RECURSIVE RStrip(_)
RStrip(s) == IF Len(s) > 0 /\ s[Len(s)] = " " THEN RStrip(Take(s, Len(s) - 1)) ELSE s
Strip(s) == RStrip(LStrip(s))

\* the digits of an int literal: digits, single underscores between them
IsNumBody(s) ==
  /\ Len(s) > 0
  /\ IsDigit(s[1])
  /\ IsDigit(s[Len(s)])
  /\ \A j \in 1..Len(s) : IsDigit(s[j]) \/ (s[j] = "_" /\ IsDigit(s[j - 1]))
RECURSIVE NumBodyVal(_)
NumBodyVal(s) ==
  IF Len(s) = 0 THEN 0
  ELSE IF s[Len(s)] = "_" THEN NumBodyVal(Take(s, Len(s) - 1))
  ELSE 10 * NumBodyVal(Take(s, Len(s) - 1)) + DigitVal(s[Len(s)])

\* int(s) of a str: ok = FALSE stands for ValueError
ParseInt(s) ==
  LET u == Strip(s)
      signed == Len(u) > 0 /\ u[1] \in {"+", "-"}
      body == IF signed THEN Drop(u, 1) ELSE u
  IN  IF IsNumBody(body)
      THEN [ok |-> TRUE,
            val |-> IF signed /\ u[1] = "-" THEN 0 - NumBodyVal(body) ELSE NumBodyVal(body)]
      ELSE [ok |-> FALSE, val |-> 0]

IsText(b) == \A j \in 1..Len(b) : b[j] # BadByte

\* create_packet(packet_id, data)
create_packet(packet_id, data) ==
  ZFill(Str(packet_id), header_size) \o ToStr(data)

\* parse_packet(packet): ok = FALSE stands for the exception int() or decode() raises
parse_packet(packet) ==
  LET head == Take(packet, header_size)
      n == IF IsText(head) THEN ParseInt(head) ELSE [ok |-> FALSE, val |-> 0]
      data == Drop(packet, header_size)
  IN  [ok |-> n.ok, num |-> n.val,
       data |-> IF IsText(data) THEN PyStr(data) ELSE PyBytes(data)]

\* int(data) of a parsed payload
IntOf(x) == ParseInt(x.v)

(***************************************************************************)
(* State.  Beside the fields of the objects, each thread keeps a history   *)
(* of what it sent and received (the *_sent, *_recv, *_acks, *_to and      *)
(* i_log variables); no step of the program reads them.                    *)
(***************************************************************************)
VARIABLES
  \* configuration of the responder (QuicServer.__init__)
  streams,                 \* QuicServer.streams
  sizes,                   \* QuicServer.sizes, by channel index 1..streams
  file_len,                \* characters in each out/file_<i>.txt
  file_text,               \* the letters create_data drew for the files
  \* QuicServer
  s_pc, s_client_address, s_i, s_threads, s_j, s_sent, s_recv,
  \* QuicClient
  c_pc, c_num_streams, c_i, c_threads, c_j, c_sent, c_to,
  streams_stats, data_per_stream, packets_per_stream, time_elapsed_per_stream,
  \* StreamOut, by channel index
  o_pc, packet_num, o_client_address, o_pos, o_chunk, o_result,
  o_sent, o_acks, o_to,
  \* StreamIn, by channel index
  i_pc, i_port, i_data_size, total_data_received, total_packets_received,
  i_result, i_log,
  \* the datagrams in flight, and the environment's counters
  net, dups, timeouts, now,
  \* the last call of a function that is called on its own, with what it returned
  last_call,
  \* add_stream_data taken statement by statement: each receiver's call in
  \* progress, and the reports made so far
  add_call, reported

confVars == <<streams, sizes, file_len, file_text>>
serverVars == <<s_pc, s_client_address, s_i, s_threads, s_j, s_sent, s_recv>>
clientVars == <<c_pc, c_num_streams, c_i, c_threads, c_j, c_sent, c_to, streams_stats>>
statsVars == <<data_per_stream, packets_per_stream, time_elapsed_per_stream>>
outVars == <<o_pc, packet_num, o_client_address, o_pos, o_chunk, o_result,
             o_sent, o_acks, o_to>>
inVars == <<i_pc, i_port, i_data_size, total_data_received, total_packets_received,
            i_result, i_log>>
envVars == <<dups, timeouts, now>>
auxVars == <<last_call, add_call, reported>>
vars == <<confVars, serverVars, clientVars, statsVars, outVars, inVars, net, envVars,
          auxVars>>

Channels == 1..MaxStreams
NoAddress == 0

\* a responder that gives every channel the port after its own
StreamPort_shared(ch) == ServerPort + 1

\* QuicServer.start_stream_threads: stream_port = self.port + i + 1, index = i + 1
StreamPort(ch) == ServerPort + ch

\* the addresses the operating system gives the initiator's sockets: any
\* addresses that are no port of the responder
ClientAddr == ServerPort - 1
StreamInAddr(idx) == ClientAddr - idx

\* a datagram in flight
Datagram(dst, src, pkt) == [dst |-> dst, src |-> src, pkt |-> pkt]

\* The network holds the datagrams in flight.  recvfrom takes one of them, in
\* any order; the network may deliver it again (keep).  A datagram that is
\* never taken is a lost datagram.
Taken(d, keep) == IF keep THEN net ELSE net \ {d}
Delivery(d, keep) ==
  /\ d \in net
  /\ keep => dups < MaxDup
  /\ dups' = IF keep THEN dups + 1 ELSE dups

\* dict[k] with a default, and dict[k] = v
Get(dict, k, default) == IF k \in DOMAIN dict THEN dict[k] ELSE default
Put(dict, k, v) == [x \in (DOMAIN dict) \cup {k} |-> IF x = k THEN v ELSE dict[x]]
EmptyDict == [x \in {} |-> 0]
\* one more occurrence of x in a history that counts occurrences
Count(hist, x) == Put(hist, x, Get(hist, x, 0) + 1)

(***************************************************************************)
(* StreamOut: the sender of one channel.                                   *)
(***************************************************************************)
\* QUIC_API.create_data: alphabetic characters, drawn at random; one draw of
\* len letters
create_data(len) == [j \in 1..len |-> IF j % 2 = 1 THEN "a" ELSE "b"]

\* the content of out/file_<i>.txt
FileText == file_text

\* StreamOut.__init__: self.data_size = data_size - 8
StreamOut_data_size(ch) == sizes[ch] - StreamOutHeader

\* file.read(self.data_size) at position pos
ReadChunk(ch, pos) ==
  SubSeq(FileText, pos + 1, Min(pos + Max(StreamOut_data_size(ch), 0), file_len))

\* socket.sendto(packet, address) by the sender of channel ch
StreamOut_sendto(ch, n, pkt, addr) ==
  /\ net' = n \cup {Datagram(addr, StreamPort(ch), pkt)}
  /\ o_sent' = [o_sent EXCEPT ![ch] = Count(@, Datagram(addr, StreamPort(ch), pkt))]

\* a sender that waits for an acknowledgment of its EOF packet
send_eof_and_wait(ch, n, pn, addr, result) ==
  /\ StreamOut_sendto(ch, n, create_packet(pn, EOF), addr)
  /\ o_pc' = [o_pc EXCEPT ![ch] = "wait_for_ack_with_retry"]
  /\ o_result' = [o_result EXCEPT ![ch] = result]
  /\ UNCHANGED <<o_pos, o_chunk>>

\* send_eof, then close_resources
send_eof(ch, n, pn, addr, result) ==
  /\ StreamOut_sendto(ch, n, create_packet(pn, EOF), addr)
  /\ o_pc' = [o_pc EXCEPT ![ch] = "closed"]
  /\ o_result' = [o_result EXCEPT ![ch] = result]
  /\ UNCHANGED <<o_pos, o_chunk>>

\* the loop of send_data_from_file from file.read on: the next chunk is sent
\* and its acknowledgment awaited, or the file is exhausted and send_eof runs
send_data_from_file(ch, n, pn, addr) ==
  LET chunk == ReadChunk(ch, o_pos[ch])
  IN  IF chunk = <<>>
      THEN send_eof(ch, n, pn, addr, "EOF")
      ELSE /\ StreamOut_sendto(ch, n, create_packet(pn, PyStr(chunk)), addr)
           /\ o_pc' = [o_pc EXCEPT ![ch] = "wait_for_ack_with_retry"]
           /\ o_pos' = [o_pos EXCEPT ![ch] = @ + Len(chunk)]
           /\ o_chunk' = [o_chunk EXCEPT ![ch] = chunk]
           /\ UNCHANGED o_result

\* StreamOut.start: wait_for_client_syn, then send_stream_size
StreamOut_wait_for_client_syn(ch, d, keep) ==
  /\ o_pc[ch] = "wait_for_client_syn"
  /\ d.dst = StreamPort(ch)
  /\ Delivery(d, keep)
  /\ LET p == parse_packet(Take(d.pkt, SynBufSize))
     IN  /\ o_client_address' = [o_client_address EXCEPT ![ch] = d.src]
         /\ IF p.ok
            THEN /\ StreamOut_sendto(ch, Taken(d, keep),
                      create_packet(packet_num[ch], PyInt(StreamOut_data_size(ch))), d.src)
                 /\ o_pc' = [o_pc EXCEPT ![ch] = "wait_for_ack"]
                 /\ UNCHANGED o_result
            ELSE \* parse_packet raises: StreamOut.start logs and closes
                 /\ net' = Taken(d, keep)
                 /\ o_pc' = [o_pc EXCEPT ![ch] = "closed"]
                 /\ o_result' = [o_result EXCEPT ![ch] = "error"]
                 /\ UNCHANGED o_sent
  /\ UNCHANGED <<packet_num, o_pos, o_chunk, o_acks, o_to>>
  /\ UNCHANGED <<auxVars, confVars, serverVars, clientVars, statsVars, inVars, timeouts, now>>

\* the number a datagram carries, for the history of the numbers acknowledged
Acknowledged(acks, packet) ==
  IF parse_packet(packet).ok THEN acks \cup {parse_packet(packet).num} ELSE acks

\* StreamOut.start: wait_for_ack, then send_data_from_file up to its first wait
StreamOut_wait_for_ack(ch, d, keep) ==
  /\ o_pc[ch] = "wait_for_ack"
  /\ d.dst = StreamPort(ch)
  /\ Delivery(d, keep)
  /\ packet_num' = [packet_num EXCEPT ![ch] = @ + 1]
  /\ o_acks' = [o_acks EXCEPT ![ch] = Acknowledged(@, Take(d.pkt, SynBufSize))]
  /\ send_data_from_file(ch, Taken(d, keep), packet_num[ch] + 1, o_client_address[ch])
  /\ UNCHANGED <<o_client_address, o_to>>
  /\ UNCHANGED <<auxVars, confVars, serverVars, clientVars, statsVars, inVars, timeouts, now>>

\* a sender that sends its chunk again when an acknowledgment does not match
StreamOut_wait_for_ack_with_retry_resend(ch, d, keep) ==
  /\ o_pc[ch] = "wait_for_ack_with_retry"
  /\ d.dst = StreamPort(ch)
  /\ Delivery(d, keep)
  /\ LET p == parse_packet(Take(d.pkt, AckBufSize))
     IN  /\ o_client_address' = [o_client_address EXCEPT ![ch] = d.src]
         /\ o_acks' = [o_acks EXCEPT ![ch] = Acknowledged(@, Take(d.pkt, AckBufSize))]
         /\ IF ~p.ok
            THEN \* caught by send_data_from_file; StreamOut.start goes on to send_eof
                 /\ packet_num' = packet_num
                 /\ send_eof(ch, Taken(d, keep), packet_num[ch], d.src, "send_error")
            ELSE IF p.num = packet_num[ch]
            THEN /\ packet_num' = [packet_num EXCEPT ![ch] = @ + 1]
                 /\ send_data_from_file(ch, Taken(d, keep), packet_num[ch] + 1, d.src)
            ELSE /\ StreamOut_sendto(ch, Taken(d, keep),
                      create_packet(packet_num[ch], PyStr(o_chunk[ch])), d.src)
                 /\ UNCHANGED <<packet_num, o_pc, o_pos, o_chunk, o_result>>
  /\ UNCHANGED o_to
  /\ UNCHANGED <<auxVars, confVars, serverVars, clientVars, statsVars, inVars, timeouts, now>>

\* a sender that takes any acknowledgment for the one it waits for
StreamOut_wait_for_ack_with_retry_any(ch, d, keep) ==
  /\ o_pc[ch] = "wait_for_ack_with_retry"
  /\ d.dst = StreamPort(ch)
  /\ Delivery(d, keep)
  /\ o_client_address' = [o_client_address EXCEPT ![ch] = d.src]
  /\ o_acks' = [o_acks EXCEPT ![ch] = Acknowledged(@, Take(d.pkt, AckBufSize))]
  /\ packet_num' = [packet_num EXCEPT ![ch] = @ + 1]
  /\ send_data_from_file(ch, Taken(d, keep), packet_num[ch] + 1, d.src)
  /\ UNCHANGED o_to
  /\ UNCHANGED <<auxVars, confVars, serverVars, clientVars, statsVars, inVars, timeouts, now>>

\* wait_for_ack_with_retry: recvfrom(8) returns a datagram
StreamOut_wait_for_ack_with_retry(ch, d, keep) ==
  /\ o_pc[ch] = "wait_for_ack_with_retry"
  /\ d.dst = StreamPort(ch)
  /\ Delivery(d, keep)
  /\ LET p == parse_packet(Take(d.pkt, AckBufSize))
     IN  /\ o_client_address' = [o_client_address EXCEPT ![ch] = d.src]
         /\ o_acks' = [o_acks EXCEPT ![ch] = Acknowledged(@, Take(d.pkt, AckBufSize))]
         /\ IF ~p.ok
            THEN \* caught by send_data_from_file; StreamOut.start goes on to send_eof
                 /\ packet_num' = packet_num
                 /\ send_eof(ch, Taken(d, keep), packet_num[ch], d.src, "send_error")
            ELSE IF p.num = packet_num[ch]
            THEN /\ packet_num' = [packet_num EXCEPT ![ch] = @ + 1]
                 /\ send_data_from_file(ch, Taken(d, keep), packet_num[ch] + 1, d.src)
            ELSE /\ net' = Taken(d, keep)
                 /\ UNCHANGED <<packet_num, o_pc, o_pos, o_chunk, o_result, o_sent>>
  /\ UNCHANGED o_to
  /\ UNCHANGED <<auxVars, confVars, serverVars, clientVars, statsVars, inVars, timeouts, now>>

\* a sender that numbers a packet it sends again with the next number
send_packet_next(ch, n, packet_data) ==
  StreamOut_sendto(ch, n, create_packet(packet_num[ch] + 1, PyStr(packet_data)),
                   o_client_address[ch])

\* send_packet(packet_data)
send_packet(ch, n, packet_data) ==
  StreamOut_sendto(ch, n, create_packet(packet_num[ch], PyStr(packet_data)),
                   o_client_address[ch])

\* a sender that lets a timeout pass without sending again
StreamOut_timeout_silent(ch) ==
  /\ o_pc[ch] = "wait_for_ack_with_retry"
  /\ timeouts < MaxTimeouts
  /\ timeouts' = timeouts + 1
  /\ o_to' = [o_to EXCEPT ![ch] = Count(@, packet_num[ch])]
  /\ UNCHANGED <<o_pc, packet_num, o_client_address, o_pos, o_chunk, o_result, o_acks,
                 o_sent, net>>
  /\ UNCHANGED <<auxVars, confVars, serverVars, clientVars, statsVars, inVars, dups, now>>

\* wait_for_ack_with_retry: recvfrom raises socket.timeout
StreamOut_timeout(ch) ==
  /\ o_pc[ch] = "wait_for_ack_with_retry"
  /\ timeouts < MaxTimeouts
  /\ timeouts' = timeouts + 1
  /\ send_packet(ch, net, o_chunk[ch])
  /\ o_to' = [o_to EXCEPT ![ch] = Count(@, packet_num[ch])]
  /\ UNCHANGED <<o_pc, packet_num, o_client_address, o_pos, o_chunk, o_result, o_acks>>
  /\ UNCHANGED <<auxVars, confVars, serverVars, clientVars, statsVars, inVars, dups, now>>

(***************************************************************************)
(* StreamIn: the receiver of one channel.                                  *)
(***************************************************************************)
\* send_ack(packet_num)
send_ack(idx, num) == Datagram(i_port[idx], StreamInAddr(idx), create_packet(num, Empty))

\* an end of StreamIn.start that skips close_resources after an error
StreamIn_close_leak(idx, result) ==
  /\ i_pc' = [i_pc EXCEPT ![idx] = IF result = "error" THEN @ ELSE "closed"]
  /\ i_result' = [i_result EXCEPT ![idx] = result]

\* the end of StreamIn.start: close_resources
StreamIn_close(idx, result) ==
  /\ i_pc' = [i_pc EXCEPT ![idx] = "closed"]
  /\ i_result' = [i_result EXCEPT ![idx] = result]

\* a callback that assigns the report to the bucket instead of adding it, and
\* files every report under the first channel
add_stream_data_assign(stream_index, time_elapsed, data_received, packets_received) ==
  /\ data_per_stream' = Put(data_per_stream, 1,
       Put(Get(data_per_stream, 1, EmptyDict), time_elapsed, data_received))
  /\ packets_per_stream' = Put(packets_per_stream, 1,
       Put(Get(packets_per_stream, 1, EmptyDict), time_elapsed, packets_received))
  /\ time_elapsed_per_stream' = Put(time_elapsed_per_stream, stream_index, time_elapsed)

\* QuicClient.add_stream_data(stream_index, time_elapsed, data_received, packets_received)
add_stream_data(stream_index, time_elapsed, data_received, packets_received) ==
  /\ data_per_stream' = Put(data_per_stream, stream_index,
       Put(Get(data_per_stream, stream_index, EmptyDict), time_elapsed,
           Get(Get(data_per_stream, stream_index, EmptyDict), time_elapsed, 0)
             + data_received))
  /\ packets_per_stream' = Put(packets_per_stream, stream_index,
       Put(Get(packets_per_stream, stream_index, EmptyDict), time_elapsed,
           Get(Get(packets_per_stream, stream_index, EmptyDict), time_elapsed, 0)
             + packets_received))
  /\ time_elapsed_per_stream' = Put(time_elapsed_per_stream, stream_index, time_elapsed)

\* StreamIn.start: initialize_connection up to the recvfrom of receive_stream_size
StreamIn_start(idx) ==
  /\ i_pc[idx] = "start"
  /\ net' = net \cup {Datagram(i_port[idx], StreamInAddr(idx), create_packet(0, Syn))}
  /\ i_pc' = [i_pc EXCEPT ![idx] = "receive_stream_size"]
  /\ UNCHANGED <<i_port, i_data_size, total_data_received, total_packets_received,
                 i_result, i_log>>
  /\ UNCHANGED <<auxVars, confVars, serverVars, clientVars, statsVars, outVars, envVars>>

\* receive_stream_size
StreamIn_receive_stream_size(idx, d, keep) ==
  /\ i_pc[idx] = "receive_stream_size"
  /\ d.dst = StreamInAddr(idx)
  /\ Delivery(d, keep)
  /\ LET p == parse_packet(Take(d.pkt, CoordBufSize))
         size == IntOf(p.data)
     IN  IF p.ok /\ size.ok
         THEN /\ i_data_size' = [i_data_size EXCEPT ![idx] = size.val + StreamInHeader]
              /\ net' = Taken(d, keep) \cup {send_ack(idx, p.num)}
              /\ i_pc' = [i_pc EXCEPT ![idx] = "receive_data"]
              /\ UNCHANGED i_result
         ELSE \* parse_packet or int() raises: StreamIn.start logs and closes
              /\ net' = Taken(d, keep)
              /\ StreamIn_close(idx, "error")
              /\ UNCHANGED i_data_size
  /\ UNCHANGED <<i_port, total_data_received, total_packets_received, i_log>>
  /\ UNCHANGED <<auxVars, confVars, serverVars, clientVars, statsVars, outVars, timeouts, now>>

\* a receiver that acknowledges a chunk with the number after its own
StreamIn_receive_data_ack_next(idx, d, keep, t) ==
  /\ i_pc[idx] = "receive_data"
  /\ d.dst = StreamInAddr(idx)
  /\ Delivery(d, keep)
  /\ parse_packet(Take(d.pkt, i_data_size[idx])).ok
  /\ parse_packet(Take(d.pkt, i_data_size[idx])).data # EOF
  /\ LET p == parse_packet(Take(d.pkt, i_data_size[idx]))
     IN  /\ t >= now
         /\ now' = t
         /\ total_data_received' = [total_data_received EXCEPT ![idx] = @ + Len(p.data.v)]
         /\ total_packets_received' = [total_packets_received EXCEPT ![idx] = @ + 1]
         /\ add_stream_data(idx, t, Len(p.data.v), 1)
         /\ net' = Taken(d, keep) \cup {send_ack(idx, p.num + 1)}
         /\ i_log' = [i_log EXCEPT ![idx] = Append(@, <<p.num, p.data.v>>)]
  /\ UNCHANGED <<i_pc, i_result, i_port, i_data_size>>
  /\ UNCHANGED <<auxVars, confVars, serverVars, clientVars, outVars, timeouts>>

\* receive_data: recvfrom returns a datagram; handle_received_data reads the
\* clock as t
StreamIn_receive_data(idx, d, keep, t) ==
  /\ i_pc[idx] = "receive_data"
  /\ d.dst = StreamInAddr(idx)
  /\ Delivery(d, keep)
  /\ LET p == parse_packet(Take(d.pkt, i_data_size[idx]))
     IN  IF ~p.ok
         THEN \* logged by receive_data, which leaves its loop
              /\ net' = Taken(d, keep)
              /\ StreamIn_close(idx, "error")
              /\ UNCHANGED <<total_data_received, total_packets_received, i_log,
                             statsVars, now>>
         ELSE IF p.data = EOF
         THEN /\ net' = Taken(d, keep)
              /\ StreamIn_close(idx, "EOF")
              /\ UNCHANGED <<total_data_received, total_packets_received, i_log,
                             statsVars, now>>
         ELSE \* handle_received_data
              /\ t >= now
              /\ now' = t
              /\ total_data_received' =
                   [total_data_received EXCEPT ![idx] = @ + Len(p.data.v)]
              /\ total_packets_received' = [total_packets_received EXCEPT ![idx] = @ + 1]
              /\ add_stream_data(idx, t, Len(p.data.v), 1)
              /\ net' = Taken(d, keep) \cup {send_ack(idx, p.num)}
              /\ i_log' = [i_log EXCEPT ![idx] = Append(@, <<p.num, p.data.v>>)]
              /\ UNCHANGED <<i_pc, i_result>>
  /\ UNCHANGED <<i_port, i_data_size>>
  /\ UNCHANGED <<auxVars, confVars, serverVars, clientVars, outVars, timeouts>>

(***************************************************************************)
(* QuicServer: the responder.                                              *)
(***************************************************************************)
\* socket.sendto(packet, client_address) by the responder
QuicServer_sendto(n, pkt, addr) ==
  /\ net' = n \cup {Datagram(addr, ServerPort, pkt)}
  /\ s_sent' = s_sent \cup {pkt}

\* the history of wait_for_client_syn and of wait_for_ack(expected): the
\* datagram recvfrom returned to the call
Received(call, expected, packet) == [call |-> call, expected |-> expected, packet |-> packet]

\* the loop of start_stream_threads from stream index i on: start_stream_thread
\* constructs StreamOut i + 1 (its socket is bound in __init__), starts its
\* thread and announces its port; after the last one wait_for_all_threads runs
start_stream_threads(i, n) ==
  IF i < streams
  THEN /\ o_pc' = [o_pc EXCEPT ![i + 1] = "wait_for_client_syn"]
       /\ s_threads' = Append(s_threads, i + 1)
       /\ QuicServer_sendto(n, create_packet(i + 1, PyStr(Str(StreamPort(i + 1)))),
                            s_client_address)
       /\ s_pc' = "start_stream_thread"
       /\ s_i' = i
       /\ UNCHANGED s_j
  ELSE /\ net' = n
       /\ s_pc' = IF Len(s_threads) = 0 THEN "completed" ELSE "wait_for_all_threads"
       /\ UNCHANGED <<o_pc, s_threads, s_i, s_j, s_sent>>

\* a responder that takes any first packet for "Syn"
QuicServer_wait_for_client_syn_any(d, keep) ==
  /\ s_pc = "wait_for_client_syn"
  /\ d.dst = ServerPort
  /\ Delivery(d, keep)
  /\ s_client_address' = d.src
  /\ QuicServer_sendto(Taken(d, keep), create_packet(0, PyStr(Str(streams))), d.src)
  /\ s_pc' = "wait_for_ack"
  /\ s_recv' = s_recv \cup {Received("wait_for_client_syn", 0, Take(d.pkt, CoordBufSize))}
  /\ UNCHANGED <<s_i, s_threads, s_j>>
  /\ UNCHANGED <<auxVars, confVars, clientVars, statsVars, outVars, inVars, timeouts, now>>

\* QuicServer.start: wait_for_client_syn, then send_number_of_streams
QuicServer_wait_for_client_syn(d, keep) ==
  /\ s_pc = "wait_for_client_syn"
  /\ d.dst = ServerPort
  /\ Delivery(d, keep)
  /\ LET p == parse_packet(Take(d.pkt, CoordBufSize))
     IN  /\ s_client_address' = d.src
         /\ IF p.ok /\ p.data = Syn
            THEN /\ QuicServer_sendto(Taken(d, keep), create_packet(0, PyStr(Str(streams))),
                                      d.src)
                 /\ s_pc' = "wait_for_ack"
            ELSE \* parse_packet raises, or ValueError("Invalid SYN message received")
                 /\ net' = Taken(d, keep)
                 /\ s_pc' = "error"
                 /\ UNCHANGED s_sent
  /\ s_recv' = s_recv \cup {Received("wait_for_client_syn", 0, Take(d.pkt, CoordBufSize))}
  /\ UNCHANGED <<s_i, s_threads, s_j>>
  /\ UNCHANGED <<auxVars, confVars, clientVars, statsVars, outVars, inVars, timeouts, now>>

\* a responder that sets up the channels whatever wait_for_ack(0) read
QuicServer_wait_for_ack_any(d, keep) ==
  /\ s_pc = "wait_for_ack"
  /\ d.dst = ServerPort
  /\ Delivery(d, keep)
  /\ s_recv' = s_recv \cup {Received("wait_for_ack", 0, Take(d.pkt, CoordBufSize))}
  /\ start_stream_threads(0, Taken(d, keep))
  /\ UNCHANGED <<s_client_address, packet_num, o_client_address, o_pos, o_chunk,
                 o_result, o_sent, o_acks, o_to>>
  /\ UNCHANGED <<auxVars, confVars, clientVars, statsVars, inVars, timeouts, now>>

\* QuicServer.start: wait_for_ack(0) returns; on True start_stream_threads runs
QuicServer_wait_for_ack(d, keep) ==
  /\ s_pc = "wait_for_ack"
  /\ d.dst = ServerPort
  /\ Delivery(d, keep)
  /\ s_recv' = s_recv \cup {Received("wait_for_ack", 0, Take(d.pkt, CoordBufSize))}
  /\ LET p == parse_packet(Take(d.pkt, CoordBufSize))
     IN  IF ~p.ok
         THEN /\ net' = Taken(d, keep)
              /\ s_pc' = "error"
              /\ UNCHANGED <<o_pc, s_threads, s_i, s_j, s_sent>>
         ELSE IF p.num = 0
         THEN start_stream_threads(0, Taken(d, keep))
         ELSE /\ net' = Taken(d, keep)
              /\ s_pc' = "failed"
              /\ UNCHANGED <<o_pc, s_threads, s_i, s_j, s_sent>>
  /\ UNCHANGED <<s_client_address, packet_num, o_client_address, o_pos, o_chunk,
                 o_result, o_sent, o_acks, o_to>>
  /\ UNCHANGED <<auxVars, confVars, clientVars, statsVars, inVars, timeouts, now>>

\* QuicServer.start: wait_for_ack(0) times out and returns False
QuicServer_wait_for_ack_timeout ==
  /\ s_pc = "wait_for_ack"
  /\ timeouts < MaxTimeouts
  /\ timeouts' = timeouts + 1
  /\ s_pc' = "failed"
  /\ UNCHANGED <<s_client_address, s_i, s_threads, s_j, s_sent, s_recv>>
  /\ UNCHANGED <<auxVars, confVars, clientVars, statsVars, outVars, inVars, net, dups, now>>

\* start_stream_thread: wait_for_ack(stream_index + 1) returns a value that is
\* not used; the loop of start_stream_threads goes on
QuicServer_start_stream_thread(d, keep) ==
  /\ s_pc = "start_stream_thread"
  /\ d.dst = ServerPort
  /\ Delivery(d, keep)
  /\ s_recv' = s_recv \cup {Received("wait_for_ack", s_i + 1, Take(d.pkt, CoordBufSize))}
  /\ IF ~parse_packet(Take(d.pkt, CoordBufSize)).ok
     THEN /\ net' = Taken(d, keep)
          /\ s_pc' = "error"
          /\ UNCHANGED <<o_pc, s_threads, s_i, s_j, s_sent>>
     ELSE start_stream_threads(s_i + 1, Taken(d, keep))
  /\ UNCHANGED <<s_client_address, packet_num, o_client_address, o_pos, o_chunk,
                 o_result, o_sent, o_acks, o_to>>
  /\ UNCHANGED <<auxVars, confVars, clientVars, statsVars, inVars, timeouts, now>>

\* start_stream_thread: wait_for_ack(stream_index + 1) times out
QuicServer_start_stream_thread_timeout ==
  /\ s_pc = "start_stream_thread"
  /\ timeouts < MaxTimeouts
  /\ timeouts' = timeouts + 1
  /\ start_stream_threads(s_i + 1, net)
  /\ UNCHANGED <<s_client_address, s_recv, packet_num, o_client_address, o_pos, o_chunk,
                 o_result, o_sent, o_acks, o_to>>
  /\ UNCHANGED <<auxVars, confVars, clientVars, statsVars, inVars, dups, now>>

\* a responder whose join returns while the thread runs
QuicServer_wait_for_all_threads_no_join ==
  /\ s_pc = "wait_for_all_threads"
  /\ s_j < Len(s_threads)
  /\ s_j' = s_j + 1
  /\ s_pc' = IF s_j + 1 = Len(s_threads) THEN "completed" ELSE s_pc
  /\ UNCHANGED <<s_client_address, s_i, s_threads, s_sent, s_recv>>
  /\ UNCHANGED <<auxVars, confVars, clientVars, statsVars, outVars, inVars, net, envVars>>

\* wait_for_all_threads: thread.join() returns for the next thread of the list
QuicServer_wait_for_all_threads ==
  /\ s_pc = "wait_for_all_threads"
  /\ s_j < Len(s_threads)
  /\ o_pc[s_threads[s_j + 1]] = "closed"
  /\ s_j' = s_j + 1
  /\ s_pc' = IF s_j + 1 = Len(s_threads) THEN "completed" ELSE s_pc
  /\ UNCHANGED <<s_client_address, s_i, s_threads, s_sent, s_recv>>
  /\ UNCHANGED <<auxVars, confVars, clientVars, statsVars, outVars, inVars, net, envVars>>

(***************************************************************************)
(* QuicClient: the initiator.                                              *)
(***************************************************************************)
\* socket.sendto(packet, server_address) by the initiator
QuicClient_sendto(n, pkt) ==
  /\ net' = n \cup {Datagram(ServerPort, ClientAddr, pkt)}
  /\ c_sent' = Count(c_sent, pkt)

\* an initiator that acknowledges with the number after the one it read
send_ack_message_next(n, num) == QuicClient_sendto(n, create_packet(num + 1, Empty))

\* send_ack_message(packet_num)
send_ack_message(n, num) == QuicClient_sendto(n, create_packet(num, Empty))

\* send_syn_message
send_syn_message(n) == QuicClient_sendto(n, create_packet(0, Syn))

\* x / t if t > 0 else 0, kept as a fraction
Rate(x, t) == IF t > 0 THEN [num |-> x, den |-> t] ELSE [num |-> 0, den |-> 1]

\* StreamIn.get_stats, the clock read as t
get_stats(idx, t) ==
  [total_time |-> t,
   stream_index |-> idx,
   total_data_received |-> total_data_received[idx],
   total_packets_received |-> total_packets_received[idx],
   data_size |-> i_data_size[idx],
   bytes_per_second |-> Rate(total_data_received[idx], t),
   packets_per_second |-> Rate(total_packets_received[idx], t)]

RECURSIVE SumOver(_, _)
SumOver(f, S) ==
  IF S = {} THEN 0 ELSE LET x == CHOOSE y \in S : TRUE IN f[x] + SumOver(f, S \ {x})
SumValues(dict) == SumOver(dict, DOMAIN dict)
MaxValue(dict) == CHOOSE m \in {dict[k] : k \in DOMAIN dict} : \A k \in DOMAIN dict : dict[k] <= m

\* rates over the sum of the channels' elapsed times instead of their maximum
calculate_rates_sum_time ==
  [ok |-> TRUE,
   data_rate |-> Rate(SumValues([k \in DOMAIN data_per_stream |->
                        SumValues(data_per_stream[k])]),
                      SumValues(time_elapsed_per_stream)),
   packet_rate |-> Rate(SumValues([k \in DOMAIN packets_per_stream |->
                          SumValues(packets_per_stream[k])]),
                        SumValues(time_elapsed_per_stream))]

\* calculate_rates: (data_rate, packet_rate); max() of no value raises
calculate_rates ==
  LET total_data == SumValues([k \in DOMAIN data_per_stream |-> SumValues(data_per_stream[k])])
      total_packets ==
        SumValues([k \in DOMAIN packets_per_stream |-> SumValues(packets_per_stream[k])])
  IN  IF DOMAIN time_elapsed_per_stream = {}
      THEN [ok |-> FALSE, data_rate |-> Rate(0, 0), packet_rate |-> Rate(0, 0)]
      ELSE [ok |-> TRUE,
            data_rate |-> Rate(total_data, MaxValue(time_elapsed_per_stream)),
            packet_rate |-> Rate(total_packets, MaxValue(time_elapsed_per_stream))]

\* print_stream_stats raises for a channel that reported no packet (KeyError)
\* or whose last report was at elapsed time 0 (ZeroDivisionError)
print_stream_stats_ok(stats) ==
  \A idx \in DOMAIN stats :
    idx \in DOMAIN time_elapsed_per_stream /\ time_elapsed_per_stream[idx] # 0

\* finalize_and_report, with streams_stats as collected
finalize_and_report(stats) ==
  IF calculate_rates.ok /\ print_stream_stats_ok(stats) THEN "done" ELSE "error"

\* QuicClient.start: handshake_with_server sends "Syn" and waits for the count
QuicClient_start ==
  /\ c_pc = "start"
  /\ send_syn_message(net)
  /\ c_pc' = "handshake_with_server"
  /\ UNCHANGED <<c_num_streams, c_i, c_threads, c_j, c_to, streams_stats>>
  /\ UNCHANGED <<auxVars, confVars, serverVars, statsVars, outVars, inVars, envVars>>

\* handshake_with_server: receive_number_of_streams returns, the count is
\* acknowledged, and QuicClient.start enters initialize_streams
QuicClient_handshake_with_server(d, keep) ==
  /\ c_pc = "handshake_with_server"
  /\ d.dst = ClientAddr
  /\ Delivery(d, keep)
  /\ LET p == parse_packet(Take(d.pkt, CoordBufSize))
         num_streams == IntOf(p.data)
     IN  IF p.ok /\ num_streams.ok
         THEN /\ send_ack_message(Taken(d, keep), 0)
              /\ c_num_streams' = num_streams.val
              /\ c_pc' = IF num_streams.val > 0 THEN "setup_stream"
                         ELSE finalize_and_report(streams_stats)
         ELSE \* parse_packet or int() raises: QuicClient.start prints the error
              /\ net' = Taken(d, keep)
              /\ c_pc' = "error"
              /\ UNCHANGED <<c_num_streams, c_sent>>
  /\ UNCHANGED <<c_i, c_threads, c_j, c_to, streams_stats>>
  /\ UNCHANGED <<auxVars, confVars, serverVars, statsVars, outVars, inVars, timeouts, now>>

\* an initiator that gives up at the first timeout of the handshake
QuicClient_handshake_timeout_fail ==
  /\ c_pc = "handshake_with_server"
  /\ timeouts < MaxTimeouts
  /\ timeouts' = timeouts + 1
  /\ c_to' = c_to + 1
  /\ c_pc' = "error"
  /\ UNCHANGED <<c_num_streams, c_i, c_threads, c_j, c_sent, streams_stats>>
  /\ UNCHANGED <<auxVars, confVars, serverVars, statsVars, outVars, inVars, net, dups, now>>

\* handshake_with_server: socket.timeout, "Trying again"
QuicClient_handshake_timeout ==
  /\ c_pc = "handshake_with_server"
  /\ timeouts < MaxTimeouts
  /\ timeouts' = timeouts + 1
  /\ send_syn_message(net)
  /\ c_to' = c_to + 1
  /\ UNCHANGED <<c_pc, c_num_streams, c_i, c_threads, c_j, streams_stats>>
  /\ UNCHANGED <<auxVars, confVars, serverVars, statsVars, outVars, inVars, dups, now>>

\* initialize_streams: setup_stream(c_i) returns a port and
\* start_stream_thread(c_i + 1, port) constructs and starts the StreamIn
QuicClient_setup_stream(d, keep) ==
  /\ c_pc = "setup_stream"
  /\ d.dst = ClientAddr
  /\ Delivery(d, keep)
  /\ LET p == parse_packet(Take(d.pkt, CoordBufSize))
         stream_port == IntOf(p.data)
     IN  IF p.ok /\ stream_port.ok
         THEN /\ send_ack_message(Taken(d, keep), p.num)
              /\ i_pc' = [i_pc EXCEPT ![c_i + 1] = "start"]
              /\ i_port' = [i_port EXCEPT ![c_i + 1] = stream_port.val]
              /\ c_threads' = Append(c_threads, c_i + 1)
              /\ c_i' = c_i + 1
              /\ c_pc' = IF c_i + 1 < c_num_streams THEN c_pc ELSE "wait_for_threads"
         ELSE /\ net' = Taken(d, keep)
              /\ c_pc' = "error"
              /\ UNCHANGED <<i_pc, i_port, c_threads, c_i, c_sent>>
  /\ UNCHANGED <<c_num_streams, c_j, c_to, streams_stats>>
  /\ UNCHANGED <<i_data_size, total_data_received, total_packets_received, i_result, i_log>>
  /\ UNCHANGED <<auxVars, confVars, serverVars, statsVars, outVars, timeouts, now>>

\* setup_stream: socket.timeout is not caught before QuicClient.start
QuicClient_setup_stream_timeout ==
  /\ c_pc = "setup_stream"
  /\ timeouts < MaxTimeouts
  /\ timeouts' = timeouts + 1
  /\ c_pc' = "error"
  /\ UNCHANGED <<c_num_streams, c_i, c_threads, c_j, c_sent, c_to, streams_stats>>
  /\ UNCHANGED <<auxVars, confVars, serverVars, statsVars, outVars, inVars, net, dups, now>>

\* an initiator that keeps no record of a receiver that ended with an error
QuicClient_wait_for_threads_skip_failed(t) ==
  /\ c_pc = "wait_for_threads"
  /\ c_j < Len(c_threads)
  /\ i_pc[c_threads[c_j + 1]] = "closed"
  /\ t >= now
  /\ now' = t
  /\ c_j' = c_j + 1
  /\ streams_stats' = IF i_result[c_threads[c_j + 1]] = "error"
                      THEN streams_stats
                      ELSE Put(streams_stats, c_threads[c_j + 1],
                               get_stats(c_threads[c_j + 1], t))
  /\ c_pc' = IF c_j + 1 = Len(c_threads)
             THEN finalize_and_report(Put(streams_stats, c_threads[c_j + 1],
                                          get_stats(c_threads[c_j + 1], t)))
             ELSE c_pc
  /\ UNCHANGED <<c_num_streams, c_i, c_threads, c_sent, c_to>>
  /\ UNCHANGED <<auxVars, confVars, serverVars, statsVars, outVars, inVars, net, dups, timeouts>>

\* wait_for_threads: thread.join() returns for the next thread of the list and
\* collect_stream_stats stores its get_stats(); after the last one
\* finalize_and_report runs
QuicClient_wait_for_threads(t) ==
  /\ c_pc = "wait_for_threads"
  /\ c_j < Len(c_threads)
  /\ i_pc[c_threads[c_j + 1]] = "closed"
  /\ t >= now
  /\ now' = t
  /\ c_j' = c_j + 1
  /\ streams_stats' = Put(streams_stats, c_threads[c_j + 1], get_stats(c_threads[c_j + 1], t))
  /\ c_pc' = IF c_j + 1 = Len(c_threads)
             THEN finalize_and_report(Put(streams_stats, c_threads[c_j + 1],
                                          get_stats(c_threads[c_j + 1], t)))
             ELSE c_pc
  /\ UNCHANGED <<c_num_streams, c_i, c_threads, c_sent, c_to>>
  /\ UNCHANGED <<auxVars, confVars, serverVars, statsVars, outVars, inVars, net, dups, timeouts>>

(***************************************************************************)
(* Specifications.                                                         *)
(***************************************************************************)
\* QuicServer.__init__ draws a packet size from random.randint(1000, 2001) or
\* takes uniform_size: a size that holds the header and the longest reserved
\* payload.  The model scales the sizes down to the smallest of them.
MinSize == header_size + Len(EOF.v)
MaxSize == MinSize + MaxChunkLen - 1

\* QuicServer.__init__: sizes holds one packet size per stream, and every
\* payload file has the same length
InitConf(n) ==
  /\ streams = n
  /\ sizes \in [1..n -> MinSize..MaxSize]
  /\ file_len \in 0..MaxFileLen
  /\ file_text = create_data(file_len)

\* QuicServer.__init__ with is_test and uniform_size
InitConfUniform(n, uniform_size, len) ==
  /\ streams = n
  /\ sizes = [i \in 1..n |-> uniform_size]
  /\ file_len = len
  /\ file_text = create_data(len)

\* QuicServer.__init__ and QuicClient.__init__
InitCoordinators ==
  /\ s_pc = "wait_for_client_syn"
  /\ s_client_address = NoAddress
  /\ s_i = 0
  /\ s_threads = <<>>
  /\ s_j = 0
  /\ s_sent = {}
  /\ s_recv = {}
  /\ c_pc = "start"
  /\ c_num_streams = 0
  /\ c_i = 0
  /\ c_threads = <<>>
  /\ c_j = 0
  /\ c_sent = EmptyDict
  /\ c_to = 0
  /\ streams_stats = EmptyDict
  /\ data_per_stream = EmptyDict
  /\ packets_per_stream = EmptyDict
  /\ time_elapsed_per_stream = EmptyDict

\* StreamOut.__init__ and StreamIn.__init__ for the channels in S, bound to
\* each other; the other channels are not constructed
InitChannels(S) ==
  /\ o_pc = [ch \in Channels |-> IF ch \in S THEN "wait_for_client_syn" ELSE "unborn"]
  /\ packet_num = [ch \in Channels |-> 0]
  /\ o_client_address = [ch \in Channels |-> NoAddress]
  /\ o_pos = [ch \in Channels |-> 0]
  /\ o_chunk = [ch \in Channels |-> <<>>]
  /\ o_result = [ch \in Channels |-> "none"]
  /\ o_sent = [ch \in Channels |-> EmptyDict]
  /\ o_acks = [ch \in Channels |-> {}]
  /\ o_to = [ch \in Channels |-> EmptyDict]
  /\ i_pc = [ch \in Channels |-> IF ch \in S THEN "start" ELSE "unborn"]
  /\ i_port = [ch \in Channels |-> IF ch \in S THEN StreamPort(ch) ELSE NoAddress]
  /\ i_data_size = [ch \in Channels |-> 0]
  /\ total_data_received = [ch \in Channels |-> 0]
  /\ total_packets_received = [ch \in Channels |-> 0]
  /\ i_result = [ch \in Channels |-> "none"]
  /\ i_log = [ch \in Channels |-> <<>>]

NoCall == [f |-> "none"]

NoReport == [pc |-> "idle"]
InitEnv ==
  /\ dups = 0
  /\ timeouts = 0
  /\ now = 0
  /\ last_call = NoCall
  /\ add_call = [idx \in Channels |-> NoReport]
  /\ reported = [data |-> EmptyDict, packets |-> EmptyDict, time |-> EmptyDict,
                 n |-> [idx \in Channels |-> 0]]

\* the steps of the sender and of the receiver of a channel
StreamOutNext(ch, d, keep) ==
  \/ StreamOut_wait_for_client_syn(ch, d, keep)
  \/ StreamOut_wait_for_ack(ch, d, keep)
  \/ StreamOut_wait_for_ack_with_retry(ch, d, keep)

StreamInNext(idx, d, keep) ==
  \/ StreamIn_receive_stream_size(idx, d, keep)
  \/ \E t \in 0..MaxTime : StreamIn_receive_data(idx, d, keep, t)

\* One channel, a StreamOut and the StreamIn bound to its port, over a network
\* that loses, duplicates and reorders datagrams.
Init == InitConf(1) /\ InitCoordinators /\ InitChannels({1}) /\ InitEnv /\ net = {}

Next ==
  \/ \E d \in net, keep \in BOOLEAN : StreamOutNext(1, d, keep)
  \/ \E d \in net, keep \in BOOLEAN : StreamInNext(1, d, keep)
  \/ StreamOut_timeout(1)
  \/ StreamIn_start(1)

Spec == Init /\ [][Next]_vars

\* The handshake of the two coordinators over a network that loses, duplicates
\* and reorders datagrams, and on which another host may have sent the
\* responder a datagram; the channel threads they start take no step.
OtherAddr == ClientAddr - MaxStreams - 1
Strays ==
  {Datagram(ServerPort, OtherAddr, create_packet(0, PyStr(<<"H", "i">>))),
   Datagram(ServerPort, OtherAddr, create_packet(MaxStreams + 1, Empty))}

InitHandshake ==
  /\ \E n \in 1..MaxStreams : InitConfUniform(n, MaxSize, MaxFileLen)
  /\ InitCoordinators
  /\ InitChannels({})
  /\ InitEnv
  /\ net \in SUBSET Strays

HandshakeStep(d, keep) ==
  \/ QuicServer_wait_for_client_syn(d, keep)
  \/ QuicServer_wait_for_ack(d, keep)
  \/ QuicServer_start_stream_thread(d, keep)
  \/ QuicClient_handshake_with_server(d, keep)
  \/ QuicClient_setup_stream(d, keep)

HandshakeTimeout ==
  \/ QuicServer_wait_for_ack_timeout
  \/ QuicServer_start_stream_thread_timeout
  \/ QuicClient_handshake_timeout
  \/ QuicClient_setup_stream_timeout

NextHandshake ==
  \/ QuicClient_start
  \/ \E d \in net, keep \in BOOLEAN : HandshakeStep(d, keep)
  \/ HandshakeTimeout

SpecHandshake == InitHandshake /\ [][NextHandshake]_vars

\* The whole session over a network that delivers every datagram once, in any
\* order and after any delay: a receive timeout can fire before the datagram
\* arrives.
InitSession ==
  /\ \E n \in 1..MaxStreams, len \in {0, MaxFileLen} : InitConfUniform(n, MaxSize, len)
  /\ InitCoordinators
  /\ InitChannels({})
  /\ InitEnv
  /\ net = {}

NextSession ==
  \/ QuicClient_start
  \/ \E d \in net : HandshakeStep(d, FALSE)
  \/ HandshakeTimeout
  \/ QuicServer_wait_for_all_threads
  \/ \E t \in 0..MaxTime : QuicClient_wait_for_threads(t)
  \/ \E ch \in Channels, d \in net : StreamOutNext(ch, d, FALSE)
  \/ \E ch \in Channels, d \in net : StreamInNext(ch, d, FALSE)
  \/ \E ch \in Channels : StreamOut_timeout(ch)
  \/ \E ch \in Channels : StreamIn_start(ch)

SpecSession == InitSession /\ [][NextSession]_vars

(***************************************************************************)
(* Properties of a channel (Spec).                                         *)
(***************************************************************************)
\* the chunks send_data_from_file reads from the file of channel ch, in order
RECURSIVE ChunksFrom(_, _)
ChunksFrom(ch, pos) ==
  IF ReadChunk(ch, pos) = <<>> THEN <<>>
  ELSE <<ReadChunk(ch, pos)>> \o ChunksFrom(ch, pos + Len(ReadChunk(ch, pos)))
Chunks(ch) == ChunksFrom(ch, 0)

\* what a receiver records when it gets every chunk once, in the sender's order
ExpectedLog(ch) == [k \in 1..Len(Chunks(ch)) |-> <<k, Chunks(ch)[k]>>]

IsPrefix(s, t) == Len(s) <= Len(t) /\ SubSeq(t, 1, Len(s)) = s

\* the data and EOF datagrams the sender of channel ch has sent with number k
SentAs(ch, k) == {d \in DOMAIN o_sent[ch] : parse_packet(d.pkt).num = k}
\* the times the sender of channel ch has sent a datagram with number k
Transmissions(ch, k) ==
  SumValues([d \in SentAs(ch, k) |-> o_sent[ch][d]])
\* the numbers of the data chunks the sender of channel ch has sent
DataNums(ch) ==
  {parse_packet(d.pkt).num : d \in {e \in DOMAIN o_sent[ch] :
      parse_packet(e.pkt).num >= 1 /\ parse_packet(e.pkt).data # EOF}}

\* C1: the receiver records exactly the chunks the sender sent, in the sender's
\* order and each once: what it has recorded is always a prefix of the
\* sender's chunks, and when it ends on EOF it has recorded all of them, so
\* total_packets_received is the number of chunks and total_data_received the
\* payload length.
C1_RecordsEachChunkOnceInOrder ==
  /\ IsPrefix(i_log[1], ExpectedLog(1))
  /\ i_result[1] = "EOF" =>
       /\ i_log[1] = ExpectedLog(1)
       /\ total_packets_received[1] = Len(Chunks(1))
       /\ total_data_received[1] = file_len

C3_Retransmission ==
  /\ \A k \in DataNums(1) :
       /\ Cardinality({d.pkt : d \in SentAs(1, k)}) = 1
       /\ Transmissions(1, k) = 1 + Get(o_to[1], k, 0)
  /\ DOMAIN o_to[1] \subseteq DataNums(1)
  /\ \A k \in DOMAIN o_to[1] : k \notin o_acks[1] => o_pc[1] = "wait_for_ack_with_retry"

\* a chunk has been sent three times, after two timeouts
C3_TwoTimeouts == \E k \in DOMAIN o_to[1] : o_to[1][k] = 2 /\ Transmissions(1, k) = 3

(***************************************************************************)
(* Properties of the session (SpecSession) and of its handshake            *)
(* (SpecHandshake).                                                        *)
(***************************************************************************)
\* the packets of the handshake
SynPacket == create_packet(0, Syn)
AckPacket(n) == create_packet(n, Empty)
PortPacket(ch) == create_packet(ch, PyStr(Str(StreamPort(ch))))

\* what the responder has done for its channels
SenderStarted == \E ch \in Channels : o_pc[ch] # "unborn"
PortAnnounced == \E ch \in Channels : PortPacket(ch) \in s_sent
\* the datagrams the calls of the responder have read
FirstPackets == {r \in s_recv : r.call = "wait_for_client_syn"}
AcksRead(n) == {r \in s_recv : r.call = "wait_for_ack" /\ r.expected = n}
Numbered(r, n) == parse_packet(r.packet).ok /\ parse_packet(r.packet).num = n

\* C4: when the initiator has finished its report, every receiver has ended by
\* EOF, the initiator holds one record for each of the N channels, and the
\* bytes recorded are the bytes of the N payload files.
C4_Completion ==
  c_pc = "done" =>
    /\ \A idx \in 1..streams : i_result[idx] = "EOF"
    /\ DOMAIN streams_stats = 1..streams
    /\ SumValues([idx \in DOMAIN streams_stats |-> streams_stats[idx].total_data_received])
         = streams * file_len

\* C5: the receiver with index i is bound to the port the responder announced
\* for channel i, and an initiator that has set up its channels has launched
\* N receivers.
C5_HandshakeDeterminism ==
  /\ \A k \in 1..Len(c_threads) : i_port[c_threads[k]] = StreamPort(c_threads[k])
  /\ c_pc = "wait_for_threads" => Len(c_threads) = streams

\* C6: the responder has announced a channel after the first one (and started
\* its sender) only if it has received the acknowledgment of the announcement
\* before: the acknowledgment with number i for the announcement of channel i
\* (channels counted from 1).
C6_SequentialSetup ==
  \A k \in 2..Len(s_threads) : \E r \in AcksRead(k - 1) : Numbered(r, k - 1)

\* C7: wait_for_ack(0) reads one packet, and the responder sets up channels
\* only if its number is 0; after a timeout or a packet with another number
\* the responder has started no sender and announced no port, and does
\* nothing more.
C7_State ==
  /\ Cardinality(AcksRead(0)) <= 1
  /\ (s_threads # <<>> \/ SenderStarted \/ PortAnnounced) =>
       \E r \in AcksRead(0) : Numbered(r, 0)
  /\ (\E r \in AcksRead(0) : ~Numbered(r, 0)) => s_pc \in {"failed", "error"}
  /\ s_pc = "failed" => s_threads = <<>> /\ ~SenderStarted /\ ~PortAnnounced
C7_CountAcknowledgment ==
  [] C7_State /\ [][s_pc = "failed" => UNCHANGED <<serverVars, outVars>>]_vars

\* wait_for_ack(0) has read a packet with another number, and returned False
C7_Mismatch == s_pc = "failed" /\ \E r \in AcksRead(0) : ~Numbered(r, 0)

\* C8: after a first packet whose payload is not "Syn" the responder has
\* failed, and has sent no packet (no channel count, no port) and started no
\* sender.
C8_InvalidHandshake ==
  \A r \in FirstPackets :
    ~(parse_packet(r.packet).ok /\ parse_packet(r.packet).data = Syn) =>
      s_pc = "error" /\ s_sent = {} /\ s_threads = <<>> /\ ~SenderStarted

\* the first packet was not "Syn"
C8_NotSyn == \E r \in FirstPackets : parse_packet(r.packet).data = PyStr(<<"H", "i">>)

\* C9: handshake_with_server has sent "Syn" once and once more for every
\* timeout, and no acknowledgment while it waits; a timeout leaves it waiting,
\* and the step that receives the channel count sends the acknowledgment
\* with number 0, once.
C9_State ==
  /\ Get(c_sent, SynPacket, 0) = IF c_pc = "start" THEN 0 ELSE 1 + c_to
  /\ c_pc \in {"start", "handshake_with_server"} => Get(c_sent, AckPacket(0), 0) = 0
C9_Step ==
  c_pc = "handshake_with_server" =>
    /\ c_to' # c_to => c_pc' = "handshake_with_server" /\ c_sent' = Count(c_sent, SynPacket)
    /\ Get(c_sent', AckPacket(0), 0) = IF c_num_streams' # c_num_streams THEN 1 ELSE 0
    /\ c_pc' # "error"
C10_DoneAfterSenders ==
  s_pc = "completed" => \A k \in 1..Len(s_threads) : o_pc[s_threads[k]] = "closed"

\* the responder is done after two senders
C10_TwoSendersDone == s_pc = "completed" /\ Len(s_threads) = 2

(***************************************************************************)
(* The codec on its own (SpecCodec): create_packet and parse_packet are    *)
(* called with arguments drawn from small sets, and parse_packet is        *)
(* applied to what create_packet returned.                                 *)
(***************************************************************************)
\* the largest number that str() writes with header_size digits
MaxSeq == 10 ^ header_size - 1

SeqNums == {0, 1, 12, 4096, MaxSeq, MaxSeq + 1}
Payloads ==
  {Empty, PyStr(<<"a">>), PyStr(<<"1", "2">>), Syn, EOF,
   PyBytes(<<>>), PyBytes(<<"a">>), PyBytes(<<BadByte>>)}
Headers ==
  {<<"0", "0", "0", "0", "0", "0", "0", "5">>,
   <<"-", "0", "0", "0", "0", "0", "0", "1">>,
   <<"+", "0", "0", "0", "0", "0", "0", "1">>,
   <<" ", " ", " ", " ", " ", " ", " ", "7">>,
   <<"1", "_", "0", "0", "0", "_", "0", "0">>,
   <<"0", "0", "0", "0", "0", " ", "1", "2">>,
   <<"i", "n", "v", "a", "l", "i", "d", "_">>,
   <<"0", "0", "0", "0", "0", "0", "0", BadByte>>}
RawPackets ==
  {h \o b : h \in Headers, b \in {<<>>, <<"a">>, <<BadByte>>}}
    \cup {<<>>, <<"1", "2">>, <<"-", "3">>}

\* two Python values are equal
SameValue(x, y) == x.t = y.t /\ x.v = y.v

\* create_packet(packet_id, data) returns a packet: it has no statement that raises
create_packet_call(packet_id, data) ==
  /\ last_call.f = "none"
  /\ last_call' = [f |-> "create_packet", packet_id |-> packet_id, data |-> data,
                   returned |-> TRUE, packet |-> create_packet(packet_id, data)]
  /\ UNCHANGED <<confVars, serverVars, clientVars, statsVars, outVars, inVars, net, envVars,
               add_call, reported>>

\* parse_packet(packet) returns or raises
parse_packet_call(packet) ==
  /\ last_call.f = "none"
  /\ last_call' = [f |-> "parse_packet", packet |-> packet, result |-> parse_packet(packet)]
  /\ UNCHANGED <<confVars, serverVars, clientVars, statsVars, outVars, inVars, net, envVars,
               add_call, reported>>

\* parse_packet(create_packet(packet_id, data))
round_trip_call ==
  /\ last_call.f = "create_packet"
  /\ last_call' = [f |-> "round_trip", packet_id |-> last_call.packet_id,
                   data |-> last_call.data, packet |-> last_call.packet,
                   result |-> parse_packet(last_call.packet)]
  /\ UNCHANGED <<confVars, serverVars, clientVars, statsVars, outVars, inVars, net, envVars,
               add_call, reported>>

InitCodec ==
  /\ InitConfUniform(1, MinSize, 0)
  /\ InitCoordinators
  /\ InitChannels({})
  /\ InitEnv
  /\ net = {}

NextCodec ==
  \/ \E packet_id \in SeqNums, data \in Payloads : create_packet_call(packet_id, data)
  \/ \E packet \in RawPackets : parse_packet_call(packet)
  \/ round_trip_call

SpecCodec == InitCodec /\ [][NextCodec]_vars

\* the first header_size bytes are the literal of an integer that is not
\* negative: int() accepts them, and they carry no minus sign
NonNegativeLiteral(head) ==
  /\ IsText(head)
  /\ ParseInt(head).ok
  /\ \A j \in 1..Len(head) : head[j] # "-"

\* C11: parse_packet(create_packet(n, p)) is (n, p) for every sequence number
\* n of at most 8 digits and every payload p, a str or a bytes object.
C11_RoundTrip ==
  (last_call.f = "round_trip" /\ last_call.packet_id <= MaxSeq) =>
    /\ last_call.result.ok
    /\ last_call.result.num = last_call.packet_id
    /\ SameValue(last_call.result.data, last_call.data)

\* C12: parse_packet raises for every packet whose first 8 bytes are not the
\* literal of a non-negative integer.
C12_MalformedHeader ==
  (last_call.f = "parse_packet"
     /\ ~NonNegativeLiteral(Take(last_call.packet, header_size))) =>
    ~last_call.result.ok

\* C13: create_packet fails for a sequence number of more than 8 digits, and
\* every packet it returns starts with a sequence field 8 characters wide.
C13_SequenceWidth ==
  last_call.f = "create_packet" =>
    /\ last_call.packet_id > MaxSeq => ~last_call.returned
    /\ last_call.returned =>
         Len(last_call.packet) = header_size + Len(ToStr(last_call.data))

(***************************************************************************)
(* Properties of the receiver and of the statistics.                       *)
(***************************************************************************)
\* the sum of the buckets of channel idx in a time-bucketed map
BucketSum(dict, idx) == SumValues(Get(dict, idx, EmptyDict))

\* the sum of the lengths of the payloads in a receiver's record
RECURSIVE LogBytes(_)
LogBytes(log) == IF log = <<>> THEN 0 ELSE Len(log[1][2]) + LogBytes(Tail(log))

\* what a step of receive_data does with the datagram d it reads
Receives(idx, d) ==
  LET p == parse_packet(Take(d.pkt, i_data_size[idx]))
  IN  IF p.ok /\ p.data # EOF
      THEN /\ total_packets_received'[idx] = total_packets_received[idx] + 1
           /\ total_data_received'[idx] = total_data_received[idx] + Len(p.data.v)
           /\ BucketSum(packets_per_stream', idx) = BucketSum(packets_per_stream, idx) + 1
           /\ BucketSum(data_per_stream', idx) = BucketSum(data_per_stream, idx) + Len(p.data.v)
           /\ send_ack(idx, p.num) \in net'
           /\ net' \subseteq net \cup {send_ack(idx, p.num)}
           /\ i_pc'[idx] = "receive_data"
      ELSE /\ p.ok => i_result'[idx] = "EOF"
           /\ i_pc'[idx] = "closed"
           /\ total_packets_received'[idx] = total_packets_received[idx]
           /\ total_data_received'[idx] = total_data_received[idx]
           /\ UNCHANGED statsVars
           /\ net' \subseteq net

\* C14: every step of receive_data reads one datagram; a data packet is
\* recorded once (one packet, its payload length, one statistics callback) and
\* acknowledged with its own number, an EOF packet ends the loop and is
\* neither recorded nor acknowledged; so a receiver that ended on EOF has
\* counted the data packets it was fed and the sum of their payload lengths.
C14_Totals ==
  /\ total_packets_received[1] = Len(i_log[1])
  /\ total_data_received[1] = LogBytes(i_log[1])
C14_Step ==
  (i_pc[1] = "receive_data" /\ inVars' # inVars) =>
    \E d \in net : d.dst = StreamInAddr(1) /\ Receives(1, d)
C14_ReceiverAccounting == [] C14_Totals /\ [][C14_Step]_vars

\* the receiver has ended on EOF after three data packets
C14_ThreeThenEOF == i_result[1] = "EOF" /\ total_packets_received[1] = 3

\* the sum of all buckets of all channels in a time-bucketed map
AllBuckets(dict) == SumValues([k \in DOMAIN dict |-> SumValues(dict[k])])

MaxReports == 2
ReportBytes == 1..MaxChunkLen
ReportPackets == {1, 2}

\* the bucket map of one channel
Buckets(dict, stream_index) == Get(dict, stream_index, EmptyDict)

\* the callback of a receiver has its channel index bound as stream_index
stream_data_callback_shared(index) == 1
stream_data_callback(index) == index

\* data_per_stream[stream_index][time_elapsed] += data_received, the read: a
\* defaultdict inserts the default of a missing key when it is read
add_stream_data_read_data(idx, time_elapsed, data_received, packets_received) ==
  LET stream_index == stream_data_callback(idx)
      value == Get(Buckets(data_per_stream, stream_index), time_elapsed, 0)
  IN  /\ last_call.f = "none"
      /\ add_call[idx].pc = "idle"
      /\ reported.n[idx] < MaxReports
      /\ time_elapsed >= Get(reported.time, idx, 0)
      /\ add_call' = [add_call EXCEPT ![idx] =
           [pc |-> "write_data", stream_index |-> stream_index,
            time_elapsed |-> time_elapsed, data_received |-> data_received,
            packets_received |-> packets_received, value |-> value]]
      /\ data_per_stream' = Put(data_per_stream, stream_index,
           Put(Buckets(data_per_stream, stream_index), time_elapsed, value))
      /\ reported' =
           [data |-> Put(reported.data, stream_index,
              Put(Buckets(reported.data, stream_index), time_elapsed,
                  Get(Buckets(reported.data, stream_index), time_elapsed, 0) + data_received)),
            packets |-> Put(reported.packets, stream_index,
              Put(Buckets(reported.packets, stream_index), time_elapsed,
                  Get(Buckets(reported.packets, stream_index), time_elapsed, 0)
                    + packets_received)),
            time |-> Put(reported.time, idx, time_elapsed),
            n |-> [reported.n EXCEPT ![idx] = @ + 1]]
      /\ UNCHANGED <<packets_per_stream, time_elapsed_per_stream, last_call>>
      /\ UNCHANGED <<confVars, serverVars, clientVars, outVars, inVars, net, envVars>>

\* data_per_stream[stream_index][time_elapsed] += data_received, the write
add_stream_data_write_data(idx) ==
  LET c == add_call[idx]
  IN  /\ c.pc = "write_data"
      /\ data_per_stream' = Put(data_per_stream, c.stream_index,
           Put(Buckets(data_per_stream, c.stream_index), c.time_elapsed,
               c.value + c.data_received))
      /\ add_call' = [add_call EXCEPT ![idx] = [c EXCEPT !.pc = "read_packets"]]
      /\ UNCHANGED <<packets_per_stream, time_elapsed_per_stream, last_call, reported>>
      /\ UNCHANGED <<confVars, serverVars, clientVars, outVars, inVars, net, envVars>>

\* packets_per_stream[stream_index][time_elapsed] += packets_received, the read
add_stream_data_read_packets(idx) ==
  LET c == add_call[idx]
      value == Get(Buckets(packets_per_stream, c.stream_index), c.time_elapsed, 0)
  IN  /\ c.pc = "read_packets"
      /\ packets_per_stream' = Put(packets_per_stream, c.stream_index,
           Put(Buckets(packets_per_stream, c.stream_index), c.time_elapsed, value))
      /\ add_call' = [add_call EXCEPT ![idx] =
           [c EXCEPT !.pc = "write_packets", !.value = value]]
      /\ UNCHANGED <<data_per_stream, time_elapsed_per_stream, last_call, reported>>
      /\ UNCHANGED <<confVars, serverVars, clientVars, outVars, inVars, net, envVars>>

\* packets_per_stream[stream_index][time_elapsed] += packets_received, the write
add_stream_data_write_packets(idx) ==
  LET c == add_call[idx]
  IN  /\ c.pc = "write_packets"
      /\ packets_per_stream' = Put(packets_per_stream, c.stream_index,
           Put(Buckets(packets_per_stream, c.stream_index), c.time_elapsed,
               c.value + c.packets_received))
      /\ add_call' = [add_call EXCEPT ![idx] = [c EXCEPT !.pc = "set_time"]]
      /\ UNCHANGED <<data_per_stream, time_elapsed_per_stream, last_call, reported>>
      /\ UNCHANGED <<confVars, serverVars, clientVars, outVars, inVars, net, envVars>>

\* time_elapsed_per_stream[stream_index] = time_elapsed, and the call returns
add_stream_data_set_time(idx) ==
  LET c == add_call[idx]
  IN  /\ c.pc = "set_time"
      /\ time_elapsed_per_stream' =
           Put(time_elapsed_per_stream, c.stream_index, c.time_elapsed)
      /\ add_call' = [add_call EXCEPT ![idx] = NoReport]
      /\ UNCHANGED <<data_per_stream, packets_per_stream, last_call, reported>>
      /\ UNCHANGED <<confVars, serverVars, clientVars, outVars, inVars, net, envVars>>

NoReportRunning == \A idx \in Channels : add_call[idx].pc = "idle"

\* calculate_rates, called when the receivers have been joined
calculate_rates_call ==
  /\ last_call.f = "none"
  /\ NoReportRunning
  /\ last_call' = [f |-> "calculate_rates", result |-> calculate_rates]
  /\ UNCHANGED <<confVars, serverVars, clientVars, statsVars, outVars, inVars, net, envVars,
                 add_call, reported>>

InitStats ==
  /\ InitConfUniform(MaxStreams, MinSize, 0)
  /\ InitCoordinators
  /\ InitChannels({})
  /\ InitEnv
  /\ net = {}

NextStats ==
  \/ \E idx \in Channels :
       \/ \E time_elapsed \in 0..MaxTime, data_received \in ReportBytes,
             packets_received \in ReportPackets :
            add_stream_data_read_data(idx, time_elapsed, data_received, packets_received)
       \/ add_stream_data_write_data(idx)
       \/ add_stream_data_read_packets(idx)
       \/ add_stream_data_write_packets(idx)
       \/ add_stream_data_set_time(idx)
  \/ calculate_rates_call

SpecStats == InitStats /\ [][NextStats]_vars

\* C16: when no call of add_stream_data is in progress, every bucket of every
\* channel holds the sum of the reports made for its key, however the
\* statements of the receivers' calls were interleaved.
C16_NoLostUpdates ==
  NoReportRunning =>
    /\ data_per_stream = reported.data
    /\ packets_per_stream = reported.packets

\* both receivers have made all their reports, the first one twice for the
\* same bucket
C16_SameBucketTwice ==
  /\ NoReportRunning
  /\ \A idx \in Channels : reported.n[idx] = MaxReports
  /\ Cardinality(DOMAIN Buckets(reported.data, 1)) = 1

\* the rate r is x / t, and 0 when t is 0
IsRate(r, x, t) == IF t = 0 THEN r.num = 0 ELSE r.num * t = x * r.den

\* C17: for statistics with at least one report, calculate_rates returns the
\* bytes and the packets of all reports of all channels, each divided by the
\* largest of the channels' elapsed times, and 0 for both when that time is 0.
C17_CalculateRates ==
  (last_call.f = "calculate_rates" /\ DOMAIN reported.time # {}) =>
    /\ last_call.result.ok
    /\ IsRate(last_call.result.data_rate, AllBuckets(reported.data),
              MaxValue(reported.time))
    /\ IsRate(last_call.result.packet_rate, AllBuckets(reported.packets),
              MaxValue(reported.time))

\* rates were calculated for two channels whose elapsed times differ
C17_TwoElapsedTimes ==
  /\ last_call.f = "calculate_rates"
  /\ DOMAIN reported.time = Channels
  /\ reported.time[1] > reported.time[2]
  /\ last_call.result.data_rate.num > 0

(***************************************************************************)
(* The whole session with one malformed datagram, sent by a third party to *)
(* the receiver or to the sender of the first channel: parse_packet raises *)
(* in the task that reads it.                                              *)
(***************************************************************************)
Malformed == <<BadByte>>
Faults ==
  {Datagram(dst, OtherAddr, Malformed) :
     dst \in {StreamInAddr(1), StreamPort(1)}}

InitFault ==
  /\ InitConfUniform(MaxStreams, MaxSize, MaxFileLen)
  /\ InitCoordinators
  /\ InitChannels({})
  /\ InitEnv
  /\ \E f \in Faults : net = {f}

\* the coordinators' datagrams arrive before the coordinators' timeouts
NextFault ==
  \/ QuicClient_start
  \/ \E d \in net : HandshakeStep(d, FALSE)
  \/ QuicServer_wait_for_all_threads
  \/ \E t \in 0..MaxTime : QuicClient_wait_for_threads(t)
  \/ \E ch \in Channels, d \in net : StreamOutNext(ch, d, FALSE)
  \/ \E ch \in Channels, d \in net : StreamInNext(ch, d, FALSE)
  \/ \E ch \in Channels : StreamOut_timeout(ch)
  \/ \E ch \in Channels : StreamIn_start(ch)

SpecFault == InitFault /\ [][NextFault]_vars

\* the variables of the two tasks of channel ch
ChannelState(ch) ==
  <<o_pc[ch], packet_num[ch], o_client_address[ch], o_pos[ch], o_chunk[ch], o_result[ch],
    o_sent[ch], o_acks[ch], o_to[ch], i_pc[ch], i_port[ch], i_data_size[ch],
    total_data_received[ch], total_packets_received[ch], i_result[ch], i_log[ch],
    Buckets(data_per_stream, ch), Buckets(packets_per_stream, ch)>>

\* a task of channel ch has been ended by an error
EndedByError(ch) ==
  \/ i_pc[ch] = "closed" /\ i_result[ch] = "error"
  \/ o_pc[ch] = "closed" /\ o_result[ch] = "error"

\* the sender of ch waits for a datagram while its receiver has ended and no
\* datagram is on its way to it: it cannot end, and cannot be joined
SenderOrphaned(ch) ==
  /\ i_pc[ch] = "closed"
  /\ o_pc[ch] \in {"wait_for_ack", "wait_for_ack_with_retry"}
  /\ \A d \in net : d.dst # StreamPort(ch)

\* the receiver of ch waits for a datagram while its sender has ended and no
\* datagram is on its way to it
ReceiverOrphaned(ch) ==
  /\ o_pc[ch] = "closed"
  /\ i_pc[ch] \in {"receive_stream_size", "receive_data"}
  /\ \A d \in net : d.dst # StreamInAddr(ch)

\* C18: the step in which an error ends a task of a channel changes nothing
\* in the other channels, and an error that has ended a task of a channel
\* leaves no task behind that waits for ever, so that both coordinators can
\* still join all their tasks.
C18_Isolated ==
  \A ch \in Channels :
    (~EndedByError(ch) /\ EndedByError(ch)') =>
      \A other \in Channels \ {ch} : ChannelState(other)' = ChannelState(other)
C18_Joinable ==
  \A ch \in Channels : EndedByError(ch) => ~SenderOrphaned(ch) /\ ~ReceiverOrphaned(ch)
C18_ChannelIsolation == [] C18_Joinable /\ [][C18_Isolated]_vars

\* the step in which the responder's wait for the acknowledgment of the
\* channel it has just announced fails: by timeout, or by another number
ResponderSetupFails ==
  /\ s_pc = "start_stream_thread"
  /\ \/ timeouts' = timeouts + 1 /\ serverVars' # serverVars
     \/ \E r \in s_recv' \ s_recv : ~Numbered(r, s_i + 1)

\* the initiator's channel setup has failed: the port announcement timed out
\* or could not be read, and QuicClient.start has ended
InitiatorSetupFailed == c_pc = "error" /\ c_num_streams > 0

\* C19: the step in which the responder's channel setup fails launches no
\* sender, and once the initiator's channel setup has failed no receiver it
\* launched takes a step.
C19_NoLaunch == ResponderSetupFails => Len(s_threads') = Len(s_threads)
C19_NoTransfer == InitiatorSetupFailed => inVars' = inVars
C19_SessionAbort == [][C19_NoLaunch /\ C19_NoTransfer]_vars

\* the initiator has joined every receiver it launched
JoinedAll == c_j > 0 /\ c_j = Len(c_threads)

\* C20: when the initiator has joined all its receivers, it holds one record
\* for each receiver it launched, whatever the receiver ended with, and the
\* totals of the record are the receiver's counters.
C20_NoSuppression ==
  JoinedAll =>
    /\ DOMAIN streams_stats = {c_threads[j] : j \in 1..Len(c_threads)}
    /\ \A idx \in DOMAIN streams_stats :
         /\ streams_stats[idx].total_data_received = total_data_received[idx]
         /\ streams_stats[idx].total_packets_received = total_packets_received[idx]

\* both receivers have been joined, the first ended by an error after it had
\* counted a packet, the second by EOF
C20_JoinedAfterError ==
  /\ JoinedAll
  /\ Len(c_threads) = MaxStreams
  /\ i_result[1] = "error"
  /\ total_packets_received[1] = 1
  /\ i_result[2] = "EOF"

(***************************************************************************)
(* The channel of Spec with send_data_from_file also called on its own, as *)
(* a test harness calls it on a sender it has constructed.                 *)
(***************************************************************************)
\* a call that does not look at client_address
send_data_from_file_call_unchecked(ch) ==
  /\ last_call.f = "none"
  /\ o_pc[ch] \in {"wait_for_client_syn", "wait_for_ack"}
  /\ last_call' = [f |-> "send_data_from_file", ch |-> ch, raised |-> FALSE]
  /\ send_data_from_file(ch, net, packet_num[ch], o_client_address[ch])
  /\ UNCHANGED <<packet_num, o_client_address, o_acks, o_to, add_call, reported>>
  /\ UNCHANGED <<confVars, serverVars, clientVars, statsVars, inVars, envVars>>

\* send_data_from_file(): raises when client_address is not set, before the
\* file is opened; else the loop runs up to its first wait
send_data_from_file_call(ch) ==
  /\ last_call.f = "none"
  /\ o_pc[ch] \in {"wait_for_client_syn", "wait_for_ack"}
  /\ last_call' = [f |-> "send_data_from_file", ch |-> ch,
                   raised |-> (o_client_address[ch] = NoAddress)]
  /\ IF o_client_address[ch] = NoAddress
     THEN UNCHANGED <<net, o_pc, o_pos, o_chunk, o_result, o_sent>>
     ELSE send_data_from_file(ch, net, packet_num[ch], o_client_address[ch])
  /\ UNCHANGED <<packet_num, o_client_address, o_acks, o_to, add_call, reported>>
  /\ UNCHANGED <<confVars, serverVars, clientVars, statsVars, inVars, envVars>>

NextDirect ==
  \/ Next
  \/ send_data_from_file_call(1)

SpecDirect == Init /\ [][NextDirect]_vars

\* C21: a call of send_data_from_file on a sender that has captured no peer
\* address raises, sends no packet and leaves the sequence counter as it was.
C21_Step ==
  (last_call.f = "none" /\ last_call'.f = "send_data_from_file"
     /\ o_client_address[last_call'.ch] = NoAddress) =>
    /\ last_call'.raised
    /\ net' = net
    /\ o_sent' = o_sent
    /\ packet_num' = packet_num
C21_NotConnected == [][C21_Step]_vars

\* send_data_from_file was called before the Syn, and raised
C21_Raised ==
  /\ last_call.f = "send_data_from_file"
  /\ last_call.raised

\* close_resources has run in the task: its socket and its log file are closed
StreamIn_released(idx) == i_pc[idx] = "closed"
StreamOut_released(ch) == o_pc[ch] = "closed"

StreamIn_surfaced(idx) ==
  [returned |-> "None",
   stats |-> [streams_stats[idx] EXCEPT !.stream_index = 0]]

\* C23: a receiver whose loop was ended by an exception hands its caller an
\* outcome that differs from the outcome of a receiver that ended by EOF.
C23_ErrorSurfaced ==
  \A a, b \in DOMAIN streams_stats :
    (i_result[a] = "error" /\ i_result[b] = "EOF") =>
      StreamIn_surfaced(a) # StreamIn_surfaced(b)

\* the sender of channel ch has sent a packet with payload "EOF"
EOFSent(ch) == \E d \in DOMAIN o_sent[ch] : parse_packet(d.pkt).data = EOF

\* C24: a sender that has sent the EOF packet has sent every chunk of its
\* payload and has received an acknowledgment with the number of each.
C24_EOFAfterPayload ==
  \A ch \in Channels :
    EOFSent(ch) =>
      \A k \in 1..Len(Chunks(ch)) : k \in DataNums(ch) /\ k \in o_acks[ch]

\* the responder has left wait_for_ack(0) for the channel setup
SetupStarted == s_pc \in {"start_stream_thread", "wait_for_all_threads", "completed"}

\* C25: when the responder has started the channel setup, the initiator has
\* sent its acknowledgment of the channel count, and what wait_for_ack(0) took
\* for that acknowledgment is not a "Syn" packet.
C25_SynIsNoAcknowledgment ==
  SetupStarted =>
    /\ AckPacket(0) \in DOMAIN c_sent
    /\ \A r \in AcksRead(0) : r.packet # SynPacket

\* a datagram with the number the sender of channel ch waits for is on its way
MatchingInFlight(ch) ==
  \E d \in net : /\ d.dst = StreamPort(ch)
                 /\ parse_packet(Take(d.pkt, AckBufSize)).num = packet_num[ch]

\* the step takes a datagram with another number from the sender's socket
MismatchedRead(ch) ==
  \E d \in net : /\ d.dst = StreamPort(ch)
                 /\ parse_packet(Take(d.pkt, AckBufSize)).num # packet_num[ch]
                 /\ d \notin net'

\* C26: while the sender waits for the acknowledgment of chunk k, a step that
\* reads a packet with another number sends nothing, keeps the counter and
\* keeps the sender waiting; the counter moves only by one and only when a
\* packet numbered k was there to be read, and a step that sends without
\* moving the counter is a timeout.
C26_Step ==
  o_pc[1] = "wait_for_ack_with_retry" =>
    /\ MismatchedRead(1) =>
         /\ o_sent'[1] = o_sent[1]
         /\ packet_num'[1] = packet_num[1]
         /\ o_pc'[1] = "wait_for_ack_with_retry"
    /\ packet_num'[1] # packet_num[1] =>
         /\ packet_num'[1] = packet_num[1] + 1
         /\ MatchingInFlight(1)
    /\ (o_sent'[1] # o_sent[1] /\ packet_num'[1] = packet_num[1]) =>
         timeouts' = timeouts + 1
C26_MismatchedAcknowledgment == [][C26_Step]_vars

\* the receiver recorded chunk 1 again after chunk 2, so that its second
\* acknowledgment of chunk 1 was sent when the sender waited for a later
\* one, and the sender has read it
C26_StaleAcknowledgmentRead ==
  /\ Len(i_log[1]) >= 3
  /\ i_log[1][1][1] = 1
  /\ i_log[1][2][1] = 2
  /\ i_log[1][3][1] = 1
  /\ \A d \in net : d.dst = StreamPort(1) => parse_packet(d.pkt).num # 1

\* the EOF datagrams the sender of channel ch has sent
EOFPackets(ch) == {d \in DOMAIN o_sent[ch] : parse_packet(d.pkt).data = EOF}

\* C27: a sender with K chunks that has sent an EOF packet has had chunk K
\* acknowledged, has sent one EOF packet, once, with the number K + 1, and
\* has ended; and a sender that ended in the normal way has sent it.
C27_TerminationSignal ==
  LET K == Len(Chunks(1))
  IN  /\ EOFSent(1) =>
           /\ K > 0 => K \in o_acks[1]
           /\ \A d \in EOFPackets(1) :
                /\ parse_packet(d.pkt).num = K + 1
                /\ o_sent[1][d] = 1
           /\ Cardinality(EOFPackets(1)) = 1
           /\ o_pc[1] = "closed"
      /\ (o_pc[1] = "closed" /\ o_result[1] = "EOF") => EOFSent(1)

\* a sender with two chunks has sent its EOF packet
C27_EOFAfterTwoChunks == Len(Chunks(1)) = 2 /\ EOFSent(1)

(***************************************************************************)
(* The channel of Spec with one well-formed datagram that a third party    *)
(* sends to the sender's port: a first packet that is no "Syn", or an      *)
(* acknowledgment.                                                         *)
(***************************************************************************)
ChannelStrays ==
  {Datagram(StreamPort(1), OtherAddr, create_packet(0, PyStr(<<"H", "i">>))),
   Datagram(StreamPort(1), OtherAddr, create_packet(0, Empty)),
   Datagram(StreamPort(1), OtherAddr, create_packet(1, Empty))}

InitStray ==
  /\ InitConf(1)
  /\ InitCoordinators
  /\ InitChannels({1})
  /\ InitEnv
  /\ \E s \in ChannelStrays : net = {s}

SpecStray == InitStray /\ [][Next]_vars

\* C28: the step in which a sender in wait_for_client_syn sends its size
\* packet has read a packet with payload "Syn", from the peer it answers.
C28_Step ==
  (o_pc[1] = "wait_for_client_syn" /\ o_sent'[1] # o_sent[1]) =>
    \E d \in net : /\ d.dst = StreamPort(1)
                   /\ d.src = o_client_address'[1]
                   /\ parse_packet(Take(d.pkt, SynBufSize)).data = Syn
C28_OpenedBySyn == [][C28_Step]_vars

\* C29: every datagram a sender sends, the size packet, the chunks, their
\* retransmissions and the EOF packet, goes to one address, the one that
\* opened the channel.
C29_PeerAddressFixed ==
  \A d, e \in DOMAIN o_sent[1] : d.dst = e.dst

\* the responder has announced every port and read an answer to each
AllChannelsSetUp == s_pc \in {"wait_for_all_threads", "completed"}

\* C30: a sender has sent a packet, its size packet or a chunk, only when the
\* responder has finished the setup of all its channels.
C30_TransferAfterSetup ==
  \A ch \in Channels : DOMAIN o_sent[ch] # {} => AllChannelsSetUp

(***************************************************************************)
(* One channel over a network that delivers a datagram once or drops it,   *)
(* with the tasks and the network going on as long as one of them can take *)
(* a step.                                                                 *)
(***************************************************************************)
\* a datagram in flight is lost
Lose(d) ==
  /\ d \in net
  /\ net' = net \ {d}
  /\ UNCHANGED <<confVars, serverVars, clientVars, statsVars, outVars, inVars, envVars,
                 auxVars>>

InitLossy ==
  /\ \E len \in {0, MaxFileLen} : InitConfUniform(1, MinSize, len)
  /\ InitCoordinators
  /\ InitChannels({1})
  /\ InitEnv
  /\ net = {}

NextLossy ==
  \/ \E d \in net : StreamOutNext(1, d, FALSE)
  \/ \E d \in net : StreamInNext(1, d, FALSE)
  \/ StreamOut_timeout(1)
  \/ StreamIn_start(1)
  \/ \E d \in net : Lose(d)

SpecLossy == InitLossy /\ [][NextLossy]_vars

\* C31: when the sender of a channel has terminated, its receiver has
\* terminated or can still take the step that leads there: a datagram is on
\* its way to it. The receiver moves only by reading a datagram, so this is
\* what its eventual termination needs, whatever datagrams were lost.
C31_ReceiverTerminates == (o_pc[1] = "closed") => ~ReceiverOrphaned(1)

\* a task of channel ch is blocked in a receive for which the code sets no
\* timeout: the sender's wait for 'Syn' or for the size acknowledgment, the
\* receiver's wait for the size packet
WaitsUnbounded(ch) ==
  \/ o_pc[ch] \in {"wait_for_client_syn", "wait_for_ack"}
  \/ i_pc[ch] = "receive_stream_size"

\* something can still end a wait of channel ch: a datagram is in flight, or
\* the receiver has yet to send its 'Syn'
WaitCanEnd(ch) == net # {} \/ i_pc[ch] = "start"

\* C32: a task blocked in a receive other than the receiver's data loop is
\* never left with nothing that can end the wait: the receive returns with a
\* packet or with a timeout.
C32_BoundedWaits == WaitsUnbounded(1) => WaitCanEnd(1)

(***************************************************************************)
(* One channel whose file holds the letters "EOF", over the network of     *)
(* Spec.                                                                   *)
(***************************************************************************)
\* draws of create_data that hold the letters "EOF", and one that starts
\* with another letter
EOFTexts == {<<"E", "O", "F">>, <<"E", "O", "F", "a">>, <<"a", "E", "O", "F">>}

\* QuicServer.__init__ with a given draw of create_data
InitConfText(n, text) ==
  /\ streams = n
  /\ sizes \in [1..n -> MinSize..MaxSize]
  /\ file_len = Len(text)
  /\ file_text = text

InitEOF ==
  /\ \E text \in EOFTexts : InitConfText(1, text)
  /\ InitCoordinators
  /\ InitChannels({1})
  /\ InitEnv
  /\ net = {}

SpecEOF == InitEOF /\ [][Next]_vars

\* C33: a receiver that left its loop on "EOF" read the sender's terminal
\* packet: the sender has run send_eof, and a chunk whose content is "EOF"
\* has not ended the loop.
C33_EndsOnTerminalPacket ==
  (i_pc[1] = "closed" /\ i_result[1] = "EOF") => o_pc[1] = "closed"

(***************************************************************************)
(* One channel whose receiver reads from a socket that can time out, as    *)
(* the tests of StreamIn.receive_data have it.                             *)
(***************************************************************************)
\* a receiver that treats a timeout of recvfrom as an error and leaves its loop
StreamIn_receive_data_timeout_break(idx) ==
  /\ i_pc[idx] = "receive_data"
  /\ timeouts < MaxTimeouts
  /\ timeouts' = timeouts + 1
  /\ StreamIn_close(idx, "error")
  /\ UNCHANGED <<i_port, i_data_size, total_data_received, total_packets_received, i_log>>
  /\ UNCHANGED <<auxVars, confVars, serverVars, clientVars, statsVars, outVars, net, dups, now>>

\* receive_data: recvfrom raises socket.timeout, which is logged, and the
\* loop continues
StreamIn_receive_data_timeout(idx) ==
  /\ i_pc[idx] = "receive_data"
  /\ timeouts < MaxTimeouts
  /\ timeouts' = timeouts + 1
  /\ UNCHANGED <<auxVars, confVars, serverVars, clientVars, statsVars, outVars, inVars,
                 net, dups, now>>

NextIdle ==
  \/ Next
  \/ StreamIn_receive_data_timeout(1)

SpecIdle == Init /\ [][NextIdle]_vars

\* C34: a step in which recvfrom of the receiver's loop times out leaves the
\* receiver in its loop with its totals as they were, sends no
\* acknowledgment and reports nothing to the statistics, whatever the number
\* of timeouts before it.
C34_Step ==
  (timeouts' = timeouts + 1 /\ o_to' = o_to) =>
    /\ i_pc[1] = "receive_data" /\ i_pc'[1] = "receive_data"
    /\ UNCHANGED <<total_data_received, total_packets_received, i_result, i_log>>
    /\ UNCHANGED <<net, statsVars>>

C34_ReceiveTimeout == [][C34_Step]_vars

\* the receiver has recorded a chunk and is in its loop after as many timeouts
\* as the bound allows, none of them the sender's
C34_TimeoutsAfterChunk ==
  /\ timeouts = MaxTimeouts
  /\ o_to[1] = EmptyDict
  /\ i_pc[1] = "receive_data"
  /\ Len(i_log[1]) >= 1

\* C35: the step in which the initiator launches a receiver reads one port
\* announcement and sends one acknowledgment, with the number of that
\* announcement; the receiver it launches was not running and gets the
\* announced port; and during the setup the initiator sends nothing else.
C35_Step ==
  /\ (c_i' = c_i + 1) =>
        \E d \in net :
          /\ d.dst = ClientAddr
          /\ LET p == parse_packet(Take(d.pkt, CoordBufSize))
             IN  /\ p.ok
                 /\ c_sent' = Count(c_sent, AckPacket(p.num))
                 /\ i_port'[c_i'] = IntOf(p.data).val
          /\ i_pc[c_i'] = "unborn" /\ i_pc'[c_i'] = "start"
  /\ (c_pc = "setup_stream" /\ c_sent' # c_sent) => c_i' = c_i + 1

Announcements == {pkt \in s_sent : parse_packet(pkt).num >= 1}
AnnouncedPort(pkt) == IntOf(parse_packet(pkt).data).val

SizePackets(ch) == {d \in DOMAIN o_sent[ch] : parse_packet(d.pkt).num = 0}

\* C37: when the sender has sent its whole payload and ended, the value in
\* its sequence-0 packet is the number of payload bytes of the channel.
C37_DeclaredSize ==
  (o_pc[1] = "closed" /\ o_result[1] = "EOF") =>
    \A d \in SizePackets(1) : IntOf(parse_packet(d.pkt).data).val = file_len

\* the datagrams the sender of channel ch sends in a step
SentInStep(ch) ==
  {d \in DOMAIN o_sent'[ch] : Get(o_sent'[ch], d, 0) > Get(o_sent[ch], d, 0)}

\* C38: the sequence counter of a sender starts at 0 and a step leaves it or
\* adds 1 to it; it adds 1 only when the wait for the size acknowledgment
\* returns and when an acknowledgment with the counter's number is read; every
\* packet sent carries the counter's number, and a data packet with number k
\* carries chunk k of the payload, the first time and every time it is sent
\* again.
C38_Step ==
  /\ packet_num'[1] \in {packet_num[1], packet_num[1] + 1}
  /\ (packet_num'[1] = packet_num[1] + 1) =>
        \/ o_pc[1] = "wait_for_ack"
        \/ /\ o_pc[1] = "wait_for_ack_with_retry"
           /\ \E d \in net : /\ d.dst = StreamPort(1)
                              /\ parse_packet(Take(d.pkt, AckBufSize)).num = packet_num[1]
  /\ \A d \in SentInStep(1) :
        /\ parse_packet(d.pkt).num = packet_num'[1]
        /\ (o_pc'[1] = "wait_for_ack_with_retry") =>
              /\ packet_num'[1] \in 1..Len(Chunks(1))
              /\ parse_packet(d.pkt).data = PyStr(Chunks(1)[packet_num'[1]])

C38_SequenceNumbering == (packet_num[1] = 0) /\ [][C38_Step]_vars

\* two chunks are acknowledged, the second after it was sent again
C38_TwoChunksOneRepeated ==
  /\ packet_num[1] = 3
  /\ Get(o_to[1], 2, 0) >= 1

(***************************************************************************)
(* One channel whose packet size, given as uniform_size, leaves room for   *)
(* chunks shorter than the text "EOF", over the network of Spec.           *)
(***************************************************************************)
\* packet sizes with a chunk of at least one character, shorter than "EOF"
SmallSizes == (header_size + 1)..(MinSize - 1)

InitSmall ==
  /\ \E size \in SmallSizes, len \in 0..MaxChunkLen : InitConfUniform(1, size, len)
  /\ InitCoordinators
  /\ InitChannels({1})
  /\ InitEnv
  /\ net = {}

SpecSmall == InitSmall /\ [][Next]_vars

\* the length of the receiver's reads in receive_data: the announced size + 8
ReceiveBuffer(ch) == StreamOut_data_size(ch) + StreamInHeader

\* C39: every data packet and EOF packet a sender has sent is no longer than
\* the buffer its receiver reads it with, and every acknowledgment on its way
\* to the sender is no longer than the sender's read of 8 bytes.
C39_BufferFit ==
  /\ \A d \in DOMAIN o_sent[1] :
       parse_packet(d.pkt).num >= 1 => Len(d.pkt) <= ReceiveBuffer(1)
  /\ \A d \in net :
       (d.dst = StreamPort(1) /\ parse_packet(d.pkt).data = Empty) =>
         Len(d.pkt) <= AckBufSize

\* C40: calculate_rates, called when no data packet was reported, returns
\* the rates (0, 0) and does not raise.
C40_NoDataRates ==
  (last_call.f = "calculate_rates" /\ DOMAIN reported.time = {}) =>
    /\ last_call.result.ok
    /\ last_call.result.data_rate.num = 0
    /\ last_call.result.packet_rate.num = 0

====
